---- MODULE Spec2Model ----
(***************************************************************************)
(* Model of scripts/validate_jsonl.py: a one-pass JSON-Lines validator.    *)
(*                                                                         *)
(* A file is a sequence of lines, a line a sequence of tokens.  The tokens *)
(* stand for the lexical classes the script and json.loads distinguish:    *)
(*   "SP"  a whitespace character          "NUM" a JSON number             *)
(*   "LB"  the character [                 "RB"  the character ]           *)
(*   "NAN" the literal NaN (accepted by json.loads, not by RFC 8259)       *)
(*   "BAD" a byte sequence that is not valid UTF-8 (a line of its own)     *)
(* The line terminator is implicit.  Standard output is assumed writable.  *)
(***************************************************************************)
EXTENDS Integers, Sequences, FiniteSets, TLC

\* the file of the first run has at most MaxLines lines and MaxTokens tokens
MaxLines == 3
MaxTokens == 2

Tokens == {"SP", "NUM", "LB", "RB", "NAN"}

RECURSIVE SeqsOf(_, _)
SeqsOf(S, n) ==
    IF n = 0 THEN {<<>>}
    ELSE LET shorter == SeqsOf(S, n - 1)
         IN  shorter \cup {Append(s, x) : s \in {t \in shorter : Len(t) = n - 1}, x \in S}

\* the decodable lines, and one line that holds an undecodable byte
Lines == SeqsOf(Tokens, MaxTokens) \cup {<<"BAD">>}

RECURSIVE FilesOf(_, _)
FilesOf(n, t) ==
    IF n = 0 THEN {<<>>}
    ELSE {<<>>} \cup UNION {{<<l>> \o f : f \in FilesOf(n - 1, t - Len(l))} :
                                l \in {x \in Lines : Len(x) <= t}}

Files == FilesOf(MaxLines, MaxTokens)

VARIABLES
    file,       \* content of the file at `path`
    openable,   \* whether path.open succeeds
    pc,         \* "start", "loop", "check", "done"
    fh,         \* file handle f: "none", "open", "closed"
    i,          \* enumerate counter: number of the last line delivered
    ok,         \* the overall flag
    out,        \* lines printed so far
    exitCode,   \* process exit status, NoExit while running
    exc,        \* uncaught exception: "none", "open" (OSError), "read" (UnicodeDecodeError)
    parsed,     \* line numbers handed to json.loads
    rerun,      \* FALSE in the first invocation, TRUE in the one after an edit
    prev,       \* file, out and exitCode of the first invocation
    edit        \* the blank-line edit made between the invocations

vars == <<file, openable, pc, fh, i, ok, out, exitCode, exc, parsed, rerun, prev, edit>>

NoExit == 0 - 1

\* ---------------------------------------------------------------------
\* Pure helpers

\* a line the UTF-8 decoder accepts
Decodable(line) == \A k \in 1..Len(line) : line[k] # "BAD"

\* number of the first undecodable line, Len(f)+1 if there is none
FirstBad(f) ==
    IF \E k \in 1..Len(f) : ~Decodable(f[k])
    THEN CHOOSE k \in 1..Len(f) : ~Decodable(f[k]) /\ \A j \in 1..(k - 1) : Decodable(f[j])
    ELSE Len(f) + 1

RECURSIVE lstrip(_)
lstrip(s) == IF s # <<>> /\ Head(s) = "SP" THEN lstrip(Tail(s)) ELSE s

RECURSIVE rstrip(_)
rstrip(s) == IF s # <<>> /\ s[Len(s)] = "SP" THEN rstrip(SubSeq(s, 1, Len(s) - 1)) ELSE s

strip_none(s) == s

\* str.strip()
strip(s) == rstrip(lstrip(s))

\* json.decoder.WHITESPACE.match(s, k).end()
RECURSIVE SkipWs(_, _)
SkipWs(s, k) == IF k <= Len(s) /\ s[k] = "SP" THEN SkipWs(s, k + 1) ELSE k

\* scan one value starting at s[k]; the position after it, or 0 when the
\* scanner raises.  allowNaN is TRUE for json.loads (parse_constant),
\* FALSE for the RFC 8259 grammar.
RECURSIVE ScanValue(_, _, _)
ScanValue(s, k, allowNaN) ==
    IF k > Len(s) THEN 0
    ELSE IF s[k] = "NUM" THEN k + 1
    ELSE IF s[k] = "NAN" THEN (IF allowNaN THEN k + 1 ELSE 0)
    ELSE IF s[k] = "LB" THEN
        LET a == SkipWs(s, k + 1)
        IN  IF a <= Len(s) /\ s[a] = "RB" THEN a + 1
            ELSE LET b == ScanValue(s, a, allowNaN)
                 IN  IF b = 0 THEN 0
                     ELSE LET c == SkipWs(s, b)
                          IN  IF c <= Len(s) /\ s[c] = "RB" THEN c + 1 ELSE 0
    ELSE 0

Decodes(s, allowNaN) ==
    LET e == ScanValue(s, SkipWs(s, 1), allowNaN)
    IN  e # 0 /\ SkipWs(s, e) = Len(s) + 1

json_loads_strict(s) == Decodes(s, FALSE)

\* TRUE when json.loads(s) returns, FALSE when it raises
json_loads(s) == Decodes(s, TRUE)

ErrorLine(n) == [tag |-> "ERROR", n |-> n]
OkLine == [tag |-> "OK", n |-> 0]

NoPrev == [file |-> <<>>, out |-> <<>>, exitCode |-> NoExit]
NoEdit == [kind |-> "none", pos |-> 0]

\* ---------------------------------------------------------------------
\* The program

\* lines 3-4: a fresh process
Fresh ==
    /\ pc = "start"
    /\ fh = "none"
    /\ i = 0
    /\ ok = TRUE
    /\ out = <<>>
    /\ exitCode = NoExit
    /\ exc = "none"
    /\ parsed = {}

Init ==
    /\ file \in Files
    /\ openable \in BOOLEAN
    /\ rerun = FALSE
    /\ prev = NoPrev
    /\ edit = NoEdit
    /\ Fresh

\* line 5, path.open succeeds
Open ==
    /\ pc = "start"
    /\ openable
    /\ pc' = "loop"
    /\ fh' = "open"
    /\ UNCHANGED <<file, openable, i, ok, out, exitCode, exc, parsed, rerun, prev, edit>>

OpenFail_caught ==
    /\ pc = "start"
    /\ ~openable
    /\ pc' = "check"
    /\ UNCHANGED <<file, openable, fh, i, ok, out, exitCode, exc, parsed, rerun, prev, edit>>

\* line 5, path.open raises OSError: nothing catches it, the interpreter
\* prints the traceback to stderr and exits with status 1
OpenFail ==
    /\ pc = "start"
    /\ ~openable
    /\ pc' = "done"
    /\ exitCode' = 1
    /\ exc' = "open"
    /\ UNCHANGED <<file, openable, fh, i, ok, out, parsed, rerun, prev, edit>>

ReadFail_leak ==
    /\ pc = "loop"
    /\ i < FirstBad(file)
    /\ FirstBad(file) <= Len(file)
    /\ pc' = "done"
    /\ exitCode' = 1
    /\ exc' = "read"
    /\ UNCHANGED <<file, openable, fh, i, ok, out, parsed, rerun, prev, edit>>

ReadFail_eof ==
    /\ pc = "loop"
    /\ i < FirstBad(file)
    /\ FirstBad(file) <= Len(file)
    /\ pc' = "check"
    /\ fh' = "closed"
    /\ UNCHANGED <<file, openable, i, ok, out, exitCode, exc, parsed, rerun, prev, edit>>

\* line 6, next(f) raises UnicodeDecodeError.  The text layer decodes the
\* file a chunk at a time, so the read of line i+1 raises when the chunk it
\* needs holds an undecodable byte: at the undecodable line at the latest,
\* possibly at an earlier line.  The exception leaves the with block (the
\* file is closed) and is uncaught: exit status 1.
ReadFail ==
    /\ pc = "loop"
    /\ i < FirstBad(file)
    /\ FirstBad(file) <= Len(file)
    /\ pc' = "done"
    /\ fh' = "closed"
    /\ exitCode' = 1
    /\ exc' = "read"
    /\ UNCHANGED <<file, openable, i, ok, out, parsed, rerun, prev, edit>>

\* line 6 delivers line i+1
Delivered ==
    /\ pc = "loop"
    /\ i < Len(file)
    /\ i + 1 < FirstBad(file)

SkipBlank_report ==
    /\ Delivered
    /\ strip(file[i + 1]) = <<>>
    /\ i' = i + 1
    /\ out' = Append(out, ErrorLine(i + 1))
    /\ ok' = FALSE
    /\ UNCHANGED <<file, openable, pc, fh, exitCode, exc, parsed, rerun, prev, edit>>

\* lines 6-9: a line that is empty after strip()
SkipBlank ==
    /\ Delivered
    /\ strip(file[i + 1]) = <<>>
    /\ i' = i + 1
    /\ UNCHANGED <<file, openable, pc, fh, ok, out, exitCode, exc, parsed, rerun, prev, edit>>

ParseOk_reset ==
    /\ Delivered
    /\ strip(file[i + 1]) # <<>>
    /\ json_loads(strip(file[i + 1]))
    /\ i' = i + 1
    /\ ok' = TRUE
    /\ parsed' = parsed \cup {i + 1}
    /\ UNCHANGED <<file, openable, pc, fh, out, exitCode, exc, rerun, prev, edit>>

\* lines 6-11: json.loads returns
ParseOk ==
    /\ Delivered
    /\ strip(file[i + 1]) # <<>>
    /\ json_loads(strip(file[i + 1]))
    /\ i' = i + 1
    /\ parsed' = parsed \cup {i + 1}
    /\ UNCHANGED <<file, openable, pc, fh, ok, out, exitCode, exc, rerun, prev, edit>>

ParseFail_break ==
    /\ Delivered
    /\ strip(file[i + 1]) # <<>>
    /\ ~json_loads(strip(file[i + 1]))
    /\ i' = i + 1
    /\ parsed' = parsed \cup {i + 1}
    /\ out' = Append(out, ErrorLine(i + 1))
    /\ ok' = FALSE
    /\ pc' = "check"
    /\ fh' = "closed"
    /\ UNCHANGED <<file, openable, exitCode, exc, rerun, prev, edit>>

\* lines 6-14: json.loads raises, the handler prints and clears the flag
ParseFail ==
    /\ Delivered
    /\ strip(file[i + 1]) # <<>>
    /\ ~json_loads(strip(file[i + 1]))
    /\ i' = i + 1
    /\ parsed' = parsed \cup {i + 1}
    /\ out' = Append(out, ErrorLine(i + 1))
    /\ ok' = FALSE
    /\ UNCHANGED <<file, openable, pc, fh, exitCode, exc, rerun, prev, edit>>

\* line 6: the iterator is exhausted, the with block closes the file
EndOfFile ==
    /\ pc = "loop"
    /\ i = Len(file)
    /\ FirstBad(file) > Len(file)
    /\ pc' = "check"
    /\ fh' = "closed"
    /\ UNCHANGED <<file, openable, i, ok, out, exitCode, exc, parsed, rerun, prev, edit>>

ExitInvalid_zero ==
    /\ pc = "check"
    /\ ~ok
    /\ pc' = "done"
    /\ exitCode' = 0
    /\ UNCHANGED <<file, openable, fh, i, ok, out, exc, parsed, rerun, prev, edit>>

\* lines 16-17
ExitInvalid ==
    /\ pc = "check"
    /\ ~ok
    /\ pc' = "done"
    /\ exitCode' = 1
    /\ UNCHANGED <<file, openable, fh, i, ok, out, exc, parsed, rerun, prev, edit>>

PrintOk_always ==
    /\ pc = "check"
    /\ out' = Append(out, OkLine)
    /\ pc' = "done"
    /\ exitCode' = 0
    /\ UNCHANGED <<file, openable, fh, i, ok, exc, parsed, rerun, prev, edit>>

\* lines 16 and 19, then the script ends: exit status 0
PrintOk ==
    /\ pc = "check"
    /\ ok
    /\ out' = Append(out, OkLine)
    /\ pc' = "done"
    /\ exitCode' = 0
    /\ UNCHANGED <<file, openable, fh, i, ok, exc, parsed, rerun, prev, edit>>

\* ---------------------------------------------------------------------
\* A second invocation on the file with one blank line inserted or removed

InsertAt(f, p, line) == SubSeq(f, 1, p) \o <<line>> \o SubSeq(f, p + 1, Len(f))
RemoveAt(f, p) == SubSeq(f, 1, p - 1) \o SubSeq(f, p + 1, Len(f))

Restart(newFile, e) ==
    /\ pc = "done"
    /\ ~rerun
    /\ rerun' = TRUE
    /\ prev' = [file |-> file, out |-> out, exitCode |-> exitCode]
    /\ edit' = e
    /\ file' = newFile
    /\ pc' = "start"
    /\ fh' = "none"
    /\ i' = 0
    /\ ok' = TRUE
    /\ out' = <<>>
    /\ exitCode' = NoExit
    /\ exc' = "none"
    /\ parsed' = {}
    /\ UNCHANGED openable

\* the blank lines an edit inserts: an empty one and one of whitespace
BlankLines == {<<>>, <<"SP">>}

\* a blank line is put in front of line p+1 and the script is run again
InsertBlank ==
    /\ pc = "done"
    /\ ~rerun
    /\ \E p \in 0..Len(file) :
       \E b \in BlankLines :
           Restart(InsertAt(file, p, b), [kind |-> "insert", pos |-> p])

\* the blank line p is deleted and the script is run again
RemoveBlank ==
    /\ pc = "done"
    /\ ~rerun
    /\ \E p \in 1..Len(file) :
        /\ Decodable(file[p])
        /\ strip(file[p]) = <<>>
        /\ Restart(RemoveAt(file, p), [kind |-> "remove", pos |-> p])

Next ==
    \/ Open
    \/ OpenFail
    \/ ReadFail
    \/ SkipBlank
    \/ ParseOk
    \/ ParseFail
    \/ EndOfFile
    \/ ExitInvalid
    \/ PrintOk
    \/ InsertBlank
    \/ RemoveBlank

Spec == Init /\ [][Next]_vars

\* ---------------------------------------------------------------------
\* Vocabulary of the properties

\* the file can be opened and read to the end
ReadToEnd == openable /\ FirstBad(file) > Len(file)

\* a line of whitespace only
IsBlank(line) == \A k \in 1..Len(line) : line[k] = "SP"

NonBlank(f) == {k \in 1..Len(f) : ~IsBlank(f[k])}

\* lines on which json.loads raises
Failing(f) == {k \in NonBlank(f) : Decodable(f[k]) /\ ~json_loads(strip(f[k]))}

\* lines that are not JSON texts by the RFC 8259 grammar
SyntacticallyInvalid(f) == {k \in NonBlank(f) : Decodable(f[k]) /\ ~json_loads_strict(strip(f[k]))}

IsError(r) == r.tag = "ERROR"

\* the line numbers of the [ERROR] lines, in output order
ErrNums(o) == LET e == SelectSeq(o, IsError) IN [k \in 1..Len(e) |-> e[k].n]

ErrSet(o) == {o[k].n : k \in {j \in 1..Len(o) : IsError(o[j])}}

OkCount(o) == Cardinality({k \in 1..Len(o) : o[k] = OkLine})

HasOK(o) == OkCount(o) > 0

RECURSIVE Ascending(_)
Ascending(S) ==
    IF S = {} THEN <<>>
    ELSE LET m == CHOOSE x \in S : \A y \in S : x <= y
         IN  <<m>> \o Ascending(S \ {m})

\* the exit status was decided by the script itself (line 16)
Decided == pc = "check" \/ (pc = "done" /\ exc = "none")

\* the step delivers a line
Delivers == pc = "loop" /\ pc' = "loop" /\ i' = i + 1

C2_ErrorPerInvalidLine ==
    (pc = "done" /\ ReadToEnd /\ SyntacticallyInvalid(file) # {}) =>
        ErrNums(out) = Ascending(SyntacticallyInvalid(file))

\* C3: a parse failure does not end the scan: every line between a failed
\* line and the current position was read and, if non-blank, parsed; and
\* when the script decides its exit status every line of the file has been
\* read and every non-blank line parsed.
C3_NoFailFast ==
    /\ \A k \in ErrSet(out) : \A j \in (k + 1)..i : j \in NonBlank(file) => j \in parsed
    /\ ErrSet(out) # {} => pc \in {"loop", "check", "done"}
    /\ Decided => (i = Len(file) /\ parsed = NonBlank(file))

C3_Witness ==
    /\ pc = "check"
    /\ \E k \in ErrSet(out) : \E j \in parsed : j > k

\* C4 as stated: at most one [OK] line, printed only after all lines were
\* processed, printed exactly when no [ERROR] line was printed, never
\* together with an [ERROR] line, and printed iff the exit code is 0.
C4_OkIffNoError ==
    /\ OkCount(out) <= 1
    /\ HasOK(out) => (i = Len(file) /\ parsed = NonBlank(file))
    /\ pc = "done" => (HasOK(out) <=> ErrSet(out) = {})
    /\ ~(HasOK(out) /\ ErrSet(out) # {})
    /\ pc = "done" => (HasOK(out) <=> exitCode = 0)

\* C4 amended: as C4, except that the [OK] line is printed exactly when
\* the scan reached the end of the file and no [ERROR] line was printed.
C4_OkLine ==
    /\ OkCount(out) <= 1
    /\ HasOK(out) => (i = Len(file) /\ parsed = NonBlank(file) /\ out[Len(out)] = OkLine)
    /\ pc = "done" => (HasOK(out) <=> (exc = "none" /\ ErrSet(out) = {}))
    /\ ~(HasOK(out) /\ ErrSet(out) # {})
    /\ pc = "done" => (HasOK(out) <=> exitCode = 0)

C4_Witness ==
    /\ pc = "done"
    /\ HasOK(out)
    /\ parsed # {}

\* C5: a line that is empty after strip() is never parsed, never reported
\* and the step over it leaves the flag and the output alone; an openable
\* file of blank lines only (the empty file included) ends with exit code 0
\* and the [OK] line as its whole output.
C5_BlankSkipped ==
    /\ [](\A k \in 1..i : IsBlank(file[k]) => (k \notin parsed /\ k \notin ErrSet(out)))
    /\ []((pc = "done" /\ openable /\ NonBlank(file) = {}) =>
            (ok /\ exitCode = 0 /\ out = <<OkLine>>))
    /\ [][(Delivers /\ IsBlank(file[i + 1])) => UNCHANGED <<ok, out, parsed>>]_vars

C5_Witness ==
    /\ pc = "done"
    /\ Len(file) >= 2
    /\ NonBlank(file) = {}
    /\ \E k \in 1..Len(file) : file[k] # <<>>
    /\ out = <<OkLine>>

\* C6: when the file cannot be opened the run ends with the uncaught
\* exception: a non-zero exit status, never 0, and nothing printed.
C6_OpenFailure ==
    ~openable =>
        /\ out = <<>>
        /\ exitCode # 0
        /\ pc \in {"start", "done"}
        /\ pc = "done" => (exc = "open" /\ exitCode = 1)

C6_Witness ==
    /\ ~openable
    /\ pc = "done"
    /\ file # <<>>

\* C7: the flag starts true, is false exactly when a line read so far
\* failed to parse, never goes back to true within a run, and a blank or
\* successfully parsed line leaves it unchanged.
C7_Monotonic ==
    /\ [](pc = "start" => ok)
    /\ [](ok <=> (Failing(file) \cap 1..i = {}))
    /\ [][(~ok /\ rerun' = rerun) => ~ok']_vars
    /\ [][(Delivers /\ (i + 1) \notin Failing(file)) => ok' = ok]_vars

C7_Witness ==
    /\ ~ok
    /\ i \in parsed
    /\ i \notin Failing(file)

\* C8: the file is open only while the loop runs: it is closed in every
\* terminal state of a run that opened it (exit 0, exit 1, uncaught read
\* failure), closed when the exit status is decided and closed when the
\* [OK] line is printed.
C8_FileClosed ==
    /\ fh = "open" <=> pc = "loop"
    /\ pc = "check" => fh = "closed"
    /\ (pc = "done" /\ exc # "open") => fh = "closed"
    /\ HasOK(out) => fh = "closed"

C8_Witness ==
    /\ pc = "done"
    /\ exc = "read"
    /\ fh = "closed"
    /\ i > 0

\* the second run differs from the first only by the shift of line numbers
Shift(n) ==
    IF edit.kind = "insert" THEN (IF edit.pos < n THEN 1 ELSE 0)
    ELSE IF edit.kind = "remove" THEN (IF edit.pos < n THEN 0 - 1 ELSE 0)
    ELSE 0

SameVerdict ==
    LET a == ErrNums(prev.out)
        b == ErrNums(out)
    IN  /\ exitCode = prev.exitCode
        /\ HasOK(out) = HasOK(prev.out)
        /\ Len(b) = Len(a)
        /\ \A k \in 1..Len(a) : file[b[k]] = prev.file[a[k]]
        /\ \A k \in 1..Len(a) : b[k] = a[k] + Shift(a[k])

ReadFailureOutcome ==
    /\ exc = "read"
    /\ parsed \subseteq 1..i
    /\ ErrNums(out) = Ascending(Failing(file) \cap 1..i)
    /\ ~HasOK(out)
    /\ exitCode = 1

\* C10 as stated: when a line is not valid UTF-8 the scan stops at that
\* line: the lines before it were processed, it and the lines after it
\* are never parsed or reported, the earlier [ERROR] lines stay, no [OK]
\* line is printed and the exit status is non-zero; no run exits with 0
\* after printing an [ERROR] line.
C10_StopsAtBadLine ==
    /\ (pc = "done" /\ openable /\ FirstBad(file) <= Len(file)) =>
          (i = FirstBad(file) - 1 /\ ReadFailureOutcome)
    /\ (pc = "done" /\ ErrSet(out) # {}) => exitCode # 0

\* C10 amended: the scan stops at the line whose read raises, which is
\* the undecodable line or an earlier one; that line and the lines after
\* it are never parsed or reported, the [ERROR] lines of the lines
\* delivered before it stay, no [OK] line is printed and the exit status
\* is non-zero; no run exits with 0 after printing an [ERROR] line.
C10_ReadFailure ==
    /\ (pc = "done" /\ openable /\ FirstBad(file) <= Len(file)) =>
          (i <= FirstBad(file) - 1 /\ ReadFailureOutcome)
    /\ (pc = "done" /\ ErrSet(out) # {}) => exitCode # 0

C10_Witness ==
    /\ pc = "done"
    /\ exc = "read"
    /\ ErrNums(out) # <<>>
    /\ i < Len(file)

TypeOK ==
    /\ Len(file) <= (IF rerun THEN MaxLines + 1 ELSE MaxLines)
    /\ \A k \in 1..Len(file) : Len(file[k]) <= MaxTokens
    /\ pc \in {"start", "loop", "check", "done"}
    /\ fh \in {"none", "open", "closed"}
    /\ i \in 0..Len(file)
    /\ ok \in BOOLEAN
    /\ exitCode \in {NoExit, 0, 1}
    /\ exc \in {"none", "open", "read"}
    /\ parsed \subseteq 1..Len(file)
====
